---- MODULE Spec2Model ----
(***************************************************************************)
(* Model of test-github-issue-summary.py: the label categorizer, the       *)
(* single-slot snapshot store, the delta engine and the sequential run of  *)
(* main (fetch, categorize, load, diff, format, notify, persist).          *)
(*                                                                         *)
(* Python values are modelled as follows.  A str is a TLA+ string or a     *)
(* tuple of its parts; where the code searches it (a label name), Chars    *)
(* gives its characters as a sequence of one-character strings.  A list   *)
(* is a sequence, a dict is a record (a function on its keys), Optional[x] *)
(* is <<>> (None) or <<x>>.                                                *)
(***************************************************************************)
EXTENDS Integers, Sequences, FiniteSets, TLC

VARIABLES
    file,               \* SNAPSHOT_FILE on disk
    clock,              \* datetime.now(), one tick per written snapshot
    pc,                 \* position of the run inside main
    dry_run,            \* main's parameter
    issues,             \* main: issues (after the pull-request filter)
    current_snapshot,   \* main: current_snapshot, Optional
    previous_snapshot,  \* main: previous_snapshot, Optional
    delta,              \* main: delta, Optional
    message,            \* main: message, Optional
    slack,              \* outcome of the chat.postMessage call of this run
    ret,                \* main's return value, Optional
    failed,             \* history: the stage of this run that failed, or "none"
    saved,              \* history: save_snapshot was entered in this run
    first_run,          \* history: calculate_delta took its "not previous" branch
    file_at_start,      \* history: the file when this run began
    last_ok_issues      \* history: issues of the last run that returned 0, Optional

vars == <<file, clock, pc, dry_run, issues, current_snapshot, previous_snapshot,
          delta, message, slack, ret, failed, saved, first_run, file_at_start,
          last_ok_issues>>

-----------------------------------------------------------------------------
(* Bounds of the model. *)

\* most issues the issue source returns to one run of main
MaxIssues == 2
\* most issues in an input list of the categorizer checked on its own
MaxCatIssues == 2
\* most issues in the lists behind the snapshots given to the delta engine
MaxDeltaIssues == 2
\* snapshots written before the model stops starting runs
MaxClock == 3

-----------------------------------------------------------------------------
(* Python helpers. *)

None == <<>>
Some(x) == <<x>>

\* a list comprehension [e(i) for i in 1..n], built as a list at once
List(f) == SubSeq(f, 1, Len(f))

\* str.lower() on the alphabet the labels below are written in
lower(s) ==
    List([i \in 1..Len(s) |->
            CASE s[i] = "B" -> "b"
              [] s[i] = "I" -> "i"
              [] s[i] = "P" -> "p"
              [] s[i] = "R" -> "r"
              [] s[i] = "T" -> "t"
              [] OTHER -> s[i]])

\* Python's  sub in s  on strings: sub occurs in s as a contiguous run
Contains(sub, s) ==
    \E i \in 0..(Len(s) - Len(sub)) : \A k \in 1..Len(sub) : s[i + k] = sub[k]

\* the literals of the three label predicates
S_blocked == <<"b","l","o","c","k","e","d">>
S_unblocked == <<"u","n","b","l","o","c","k","e","d">>
S_ready == <<"r","e","a","d","y">>
S_test == <<"t","e","s","t">>
S_in_progress == <<"i","n","-","p","r","o","g","r","e","s","s">>
S_in_progress_sp == <<"i","n"," ","p","r","o","g","r","e","s","s">>
S_status_in_progress == <<"s","t","a","t","u","s",":">> \o S_in_progress

\* Configuration
GITHUB_REPO_OWNER == "ChinchillaEnterprises"
GITHUB_REPO_NAME == "transportation-insight"
SLACK_CHANNEL_ID == "C07JM1KJJ6L"

\* label names as the tracker stores them (case kept)
LabelUniverse ==
    <<"Blocked", "unblocked", "ready-for-testing", "status:in-progress", "priority:high">>

\* the characters of a label name
Chars(name) ==
    CASE name = "Blocked" -> <<"B","l","o","c","k","e","d">>
      [] name = "unblocked" -> S_unblocked
      [] name = "ready-for-testing" ->
            <<"r","e","a","d","y","-","f","o","r","-","t","e","s","t","i","n","g">>
      [] name = "status:in-progress" -> S_status_in_progress
      [] name = "priority:high" -> <<"p","r","i","o","r","i","t","y",":","h","i","g","h">>

-----------------------------------------------------------------------------
(* categorize_issues *)

\* the truth value any() tests on a label the generator yields: a non-empty str
Truthy(label) == label /= <<>>

\* a variant of IsBlockedLabel without the "unblocked" exclusion
IsBlockedLabel_NoExclusion(label) == Contains(S_blocked, label)

IsBlockedLabel(label) == Contains(S_blocked, label) /\ ~Contains(S_unblocked, label)
IsReadyLabel(label) == Contains(S_ready, label) /\ Contains(S_test, label)
IsInProgressLabel(label) ==
    \/ Contains(S_in_progress, label)
    \/ Contains(S_in_progress_sp, label)
    \/ Contains(S_status_in_progress, label)

\* line 64: label_names
label_names_of(issue) ==
    List([i \in 1..Len(issue.labels) |-> lower(Chars(issue.labels[i].name))])

\* lines 74-76
has_blocked(label_names) ==
    \E i \in 1..Len(label_names) :
        IsBlockedLabel(label_names[i]) /\ Truthy(label_names[i])
has_ready(label_names) ==
    \E i \in 1..Len(label_names) :
        IsReadyLabel(label_names[i]) /\ Truthy(label_names[i])
has_in_progress(label_names) ==
    \E i \in 1..Len(label_names) :
        IsInProgressLabel(label_names[i]) /\ Truthy(label_names[i])

\* a variant of BucketOf that tests the ready label before the blocked label
BucketOf_ReadyFirst(issue) ==
    LET label_names == label_names_of(issue)
    IN  IF has_ready(label_names) THEN "readyForTesting"
        ELSE IF has_blocked(label_names) THEN "blocked"
        ELSE IF has_in_progress(label_names) THEN "inProgress"
        ELSE "backlog"

\* the if / elif chain of the loop body: the list the issue is appended to
BucketOf(issue) ==
    LET label_names == label_names_of(issue)
    IN  IF has_blocked(label_names) THEN "blocked"
        ELSE IF has_ready(label_names) THEN "readyForTesting"
        ELSE IF has_in_progress(label_names) THEN "inProgress"
        ELSE "backlog"

\* the dict appended for an issue
CategoryEntry(issue) ==
    [number |-> issue.number, title |-> issue.title, url |-> issue.html_url]

\* a variant of BucketEntries whose backlog.append is not under the else
BucketEntries_NoElse(iss, bucket, b) ==
    LET idx == SelectSeq([i \in 1..Len(iss) |-> i],
                         LAMBDA i : bucket[i] = b \/ b = "backlog")
    IN  List([j \in 1..Len(idx) |-> CategoryEntry(iss[idx[j]])])

\* one of the four lists after the loop: the entries of the issues whose branch
\* appended to it, in input order; bucket[i] is the branch taken for iss[i]
BucketEntries(iss, bucket, b) ==
    LET idx == SelectSeq([i \in 1..Len(iss) |-> i], LAMBDA i : bucket[i] = b)
    IN  List([j \in 1..Len(idx) |-> CategoryEntry(iss[idx[j]])])

categorize_issues(iss) ==
    LET bucket == List([i \in 1..Len(iss) |-> BucketOf(iss[i])])
        ready_for_testing == BucketEntries(iss, bucket, "readyForTesting")
        in_progress == BucketEntries(iss, bucket, "inProgress")
        blocked == BucketEntries(iss, bucket, "blocked")
        backlog == BucketEntries(iss, bucket, "backlog")
    IN  [readyForTesting |-> ready_for_testing,
         inProgress |-> in_progress,
         blocked |-> blocked,
         backlog |-> backlog,
         readyForTestingCount |-> Len(ready_for_testing),
         inProgressCount |-> Len(in_progress),
         blockedCount |-> Len(blocked),
         backlogCount |-> Len(backlog),
         totalCount |-> Len(iss)]

-----------------------------------------------------------------------------
(* Snapshot store: load_previous_snapshot, save_snapshot *)

\* json.dump writes a dict as its key/value pairs in insertion order
KeyOrder ==
    <<"readyForTesting", "inProgress", "blocked", "backlog",
      "readyForTestingCount", "inProgressCount", "blockedCount", "backlogCount",
      "totalCount", "timestamp", "repoName">>
ListKeys == {"readyForTesting", "inProgress", "blocked", "backlog"}

\* an issue entry as JSON: its three pairs
DumpEntry(e) == << <<"number", e.number>>, <<"title", e.title>>, <<"url", e.url>> >>

\* a JSON object read back: a dict on the keys met, the last pair of a key wins
LoadObject(pairs) ==
    [k \in {pairs[i][1] : i \in DOMAIN pairs} |->
        LET i == CHOOSE i \in DOMAIN pairs :
                    /\ pairs[i][1] = k
                    /\ \A j \in DOMAIN pairs : pairs[j][1] = k => j <= i
        IN  pairs[i][2]]

\* json.dump(snapshot, f): the text of the document
json_dump(d) ==
    LET keys == SelectSeq(KeyOrder, LAMBDA k : k \in DOMAIN d)
    IN  [i \in 1..Len(keys) |->
            <<keys[i],
              IF keys[i] \in ListKeys
              THEN [j \in 1..Len(d[keys[i]]) |-> DumpEntry(d[keys[i]][j])]
              ELSE d[keys[i]]>>]

\* json.load(f) of a complete document
json_load(text) ==
    LET top == LoadObject(text)
    IN  [k \in DOMAIN top |->
            IF k \in ListKeys
            THEN [j \in 1..Len(top[k]) |-> LoadObject(top[k][j])]
            ELSE top[k]]

\* SNAPSHOT_FILE: absent, or a text that is a complete JSON document or not
NoFile == [exists |-> FALSE, text |-> <<>>, complete |-> FALSE]
\* open(SNAPSHOT_FILE, 'w') truncated the file and nothing reached the disk
TruncatedFile == [exists |-> TRUE, text |-> <<>>, complete |-> FALSE]
WrittenFile(d) == [exists |-> TRUE, text |-> json_dump(d), complete |-> TRUE]

\* a variant of load_previous_snapshot that never finds the file
load_previous_snapshot_Missing(f) == [raised |-> FALSE, value |-> None]

\* load_previous_snapshot(): the value returned, or the exception raised
load_previous_snapshot(f) ==
    IF ~f.exists THEN [raised |-> FALSE, value |-> None]
    ELSE IF ~f.complete THEN [raised |-> TRUE, value |-> None]
    ELSE [raised |-> FALSE, value |-> Some(json_load(f.text))]

\* save_snapshot, lines 126-127: the dict with timestamp and repoName set
Stamped(snapshot, now) ==
    [k \in DOMAIN snapshot \cup {"timestamp", "repoName"} |->
        IF k = "timestamp" THEN now
        ELSE IF k = "repoName" THEN <<GITHUB_REPO_OWNER, "/", GITHUB_REPO_NAME>>
        ELSE snapshot[k]]

\* a variant of save_snapshot that does not replace a file that exists
save_snapshot_KeepOld(snapshot, now, f) ==
    IF f.exists THEN f ELSE WrittenFile(Stamped(snapshot, now))

\* save_snapshot, lines 134-135: the file after the with block
save_snapshot(snapshot, now, f) == WrittenFile(Stamped(snapshot, now))

-----------------------------------------------------------------------------
(* Delta engine: calculate_delta *)

\* {i['number'] for i in lst}
Numbers(lst) == {lst[i].number : i \in DOMAIN lst}

\* a variant of NotPrevious that also takes a snapshot without issues for absent
NotPrevious_OrEmpty(previous) == previous = None \/ previous[1].totalCount = 0

\* "not previous": None, or a dict with no key
NotPrevious(previous) == previous = None \/ DOMAIN previous[1] = {}

FirstRunDelta(current) ==
    [readyForTesting |->
        [count |-> current.readyForTestingCount,
         delta |-> current.readyForTestingCount,
         new |-> current.readyForTesting,
         moved |-> <<>>],
     inProgress |->
        [count |-> current.inProgressCount,
         delta |-> current.inProgressCount,
         new |-> current.inProgress],
     blocked |->
        [count |-> current.blockedCount,
         delta |-> current.blockedCount,
         new |-> current.blocked],
     backlog |->
        [count |-> current.backlogCount,
         delta |-> current.backlogCount]]

\* a variant of NewReady that compares with all four previous buckets
NewReady_AgainstAll(current, prev) ==
    SelectSeq(current.readyForTesting,
              LAMBDA i : i.number \notin
                  Numbers(prev.readyForTesting \o prev.inProgress \o prev.blocked
                          \o prev.backlog))

\* new_ready
NewReady(current, prev) ==
    SelectSeq(current.readyForTesting,
              LAMBDA i : i.number \notin Numbers(prev.readyForTesting))

\* moved_to_ready
MovedToReady(current, prev) ==
    SelectSeq(current.readyForTesting,
              LAMBDA i : \/ i.number \in Numbers(prev.inProgress)
                         \/ i.number \in Numbers(prev.blocked)
                         \/ i.number \in Numbers(prev.backlog))

\* prev_all_ids
PrevAllIds(prev) ==
    Numbers(prev.readyForTesting \o prev.inProgress \o prev.blocked \o prev.backlog)

\* a variant of NewInBucket that compares with the same-named previous bucket
NewInBucket_SameBucket(current, prev, b) ==
    SelectSeq(current[b], LAMBDA i : i.number \notin Numbers(prev[b]))

\* new_in_progress and new_blocked
NewInBucket(current, prev, b) ==
    SelectSeq(current[b], LAMBDA i : i.number \notin PrevAllIds(prev))

DiffDelta(current, prev) ==
    [readyForTesting |->
        [count |-> current.readyForTestingCount,
         delta |-> current.readyForTestingCount - prev.readyForTestingCount,
         new |-> NewReady(current, prev),
         moved |-> MovedToReady(current, prev)],
     inProgress |->
        [count |-> current.inProgressCount,
         delta |-> current.inProgressCount - prev.inProgressCount,
         new |-> NewInBucket(current, prev, "inProgress")],
     blocked |->
        [count |-> current.blockedCount,
         delta |-> current.blockedCount - prev.blockedCount,
         new |-> NewInBucket(current, prev, "blocked")],
     backlog |->
        [count |-> current.backlogCount,
         delta |-> current.backlogCount - prev.backlogCount]]

calculate_delta(current, previous) ==
    IF NotPrevious(previous) THEN FirstRunDelta(current)
    ELSE DiffDelta(current, previous[1])

-----------------------------------------------------------------------------
(* Message formatter *)

\* "+N", str(N) for a negative N, "no change": the sign and the digits
format_delta(delta_num) ==
    IF delta_num > 0 THEN <<"+", delta_num>>
    ELSE IF delta_num < 0 THEN <<"-", 0 - delta_num>>
    ELSE <<"no change">>

\* the lines joined by format_slack_message; now stands for the rendered time
format_slack_message(repo, d, now) ==
    << <<"header", repo, now>>,
       <<"Ready for Testing", d.readyForTesting.count, format_delta(d.readyForTesting.delta)>>,
       <<"In Progress", d.inProgress.count, format_delta(d.inProgress.delta)>>,
       <<"Blocked", d.blocked.count, format_delta(d.blocked.delta)>>,
       <<"Backlog", d.backlog.count, format_delta(d.backlog.delta)>> >>

-----------------------------------------------------------------------------
(* What the issue source can answer. *)

\* the label list made of the labels of LabelUniverse at the positions in S
LabelList(S) ==
    LET idx == SelectSeq([i \in 1..Len(LabelUniverse) |-> i], LAMBDA i : i \in S)
    IN  [j \in 1..Len(idx) |-> [name |-> LabelUniverse[idx[j]]]]

\* every label list over the universe
LabelLists == {LabelList(S) : S \in SUBSET (1..Len(LabelUniverse))}

\* the label lists the runs of main meet: one per bucket
RunLabelLists == <<LabelList({}), LabelList({1}), LabelList({3}), LabelList({4})>>

\* an entry of the issue source's answer; rev tells two revisions of a title apart
RawIssue(n, labels, rev) ==
    [number |-> n, title |-> <<"title", n, rev>>, html_url |-> <<"url", n>>,
     labels |-> labels]
RawPullRequest(n) ==
    [number |-> n, title |-> <<"title", n, 0>>, html_url |-> <<"url", n>>,
     labels |-> <<>>, pull_request |-> <<"url", n>>]

\* sequences of distinct numbers of 1..n: the orders an issue list can have
Orders(n) ==
    {o \in UNION {[1..k -> 1..n] : k \in 0..n} :
        \A i, j \in DOMAIN o : i /= j => o[i] /= o[j]}

\* an answer of the issue source to main: newest first (the tracker's default
\* order), number n absent (0), a pull request (Len + 1) or an issue with one of
\* RunLabelLists
RECURSIVE Response(_, _)
Response(a, n) ==
    IF n = 0 THEN <<>>
    ELSE LET rest == Response(a, n - 1)
         IN  IF a[n] = 0 THEN rest
             ELSE IF a[n] = Len(RunLabelLists) + 1 THEN <<RawPullRequest(n)>> \o rest
             ELSE <<RawIssue(n, RunLabelLists[a[n]], 0)>> \o rest

Responses(n) == {Response(a, n) : a \in [1..n -> 0..(Len(RunLabelLists) + 1)]}

\* fetch_github_issues, line 51: the answer without its pull requests
actual_issues(resp) == SelectSeq(resp, LAMBDA issue : "pull_request" \notin DOMAIN issue)

\* the orders the issue source answers in: newest first, the highest number first
NewestFirst(n) == {o \in Orders(n) : \A i, j \in DOMAIN o : i < j => o[i] > o[j]}

\* the issue list with the numbers o in this order, the labels lab[i] on the
\* i-th issue and titles of revision rev
IssueList(o, lab, rev) == [i \in DOMAIN o |-> RawIssue(o[i], lab[i], rev)]

-----------------------------------------------------------------------------
(* main *)

Init ==
    /\ file = NoFile
    /\ clock = 0
    /\ pc = "idle"
    /\ dry_run = TRUE
    /\ issues = <<>>
    /\ current_snapshot = None
    /\ previous_snapshot = None
    /\ delta = None
    /\ message = None
    /\ slack = "none"
    /\ ret = None
    /\ failed = "none"
    /\ saved = FALSE
    /\ first_run = FALSE
    /\ file_at_start = NoFile
    /\ last_ok_issues = None

\* the except clause of main: print, return 1
Raise(stage) ==
    /\ pc' = "done"
    /\ ret' = Some(1)
    /\ failed' = stage

\* a scheduled invocation: main(dry_run) is entered
Main ==
    /\ pc \in {"idle", "done"}
    /\ clock < MaxClock
    /\ \E dr \in BOOLEAN : dry_run' = dr
    /\ pc' = "step1"
    /\ issues' = <<>>
    /\ current_snapshot' = None
    /\ previous_snapshot' = None
    /\ delta' = None
    /\ message' = None
    /\ slack' = "none"
    /\ ret' = None
    /\ failed' = "none"
    /\ saved' = FALSE
    /\ first_run' = FALSE
    /\ file_at_start' = file
    /\ UNCHANGED <<file, clock, last_ok_issues>>

\* Step 1: the two get_secret calls
GetSecrets ==
    /\ pc = "step1"
    /\ \E ok \in BOOLEAN :
        IF ok THEN pc' = "step2" /\ UNCHANGED <<ret, failed>>
        ELSE Raise("secrets")
    /\ UNCHANGED <<file, clock, dry_run, issues, current_snapshot, previous_snapshot,
                   delta, message, slack, saved, first_run, file_at_start,
                   last_ok_issues>>

\* Step 2: fetch_github_issues
FetchIssues ==
    /\ pc = "step2"
    /\ \/ \E resp \in Responses(MaxIssues) :
            /\ issues' = actual_issues(resp)
            /\ pc' = "step3"
            /\ UNCHANGED <<ret, failed>>
       \/ /\ Raise("fetch")
          /\ UNCHANGED issues
    /\ UNCHANGED <<file, clock, dry_run, current_snapshot, previous_snapshot,
                   delta, message, slack, saved, first_run, file_at_start,
                   last_ok_issues>>

\* Step 3: categorize_issues
Categorize ==
    /\ pc = "step3"
    /\ current_snapshot' = Some(categorize_issues(issues))
    /\ pc' = "step4"
    /\ UNCHANGED <<file, clock, dry_run, issues, previous_snapshot, delta, message,
                   slack, ret, failed, saved, first_run, file_at_start,
                   last_ok_issues>>

\* Step 4: load_previous_snapshot
LoadPrevious ==
    /\ pc = "step4"
    /\ LET r == load_previous_snapshot(file)
       IN  IF r.raised
           THEN Raise("load") /\ UNCHANGED previous_snapshot
           ELSE /\ previous_snapshot' = r.value
                /\ pc' = "step5"
                /\ UNCHANGED <<ret, failed>>
    /\ UNCHANGED <<file, clock, dry_run, issues, current_snapshot, delta, message,
                   slack, saved, first_run, file_at_start, last_ok_issues>>

\* Step 5: calculate_delta
CalculateDelta ==
    /\ pc = "step5"
    /\ delta' = Some(calculate_delta(current_snapshot[1], previous_snapshot))
    /\ first_run' = NotPrevious(previous_snapshot)
    /\ pc' = "step6"
    /\ UNCHANGED <<file, clock, dry_run, issues, current_snapshot, previous_snapshot,
                   message, slack, ret, failed, saved, file_at_start,
                   last_ok_issues>>

\* the ways requests.post and response.json() can end: a transport error or a
\* body that is no JSON raises, else the body says ok or not
SlackOutcomes == {"ok", "not_ok", "raise"}

\* send_slack_message: whether the call raises
send_slack_message_raises(dr, outcome) == ~dr /\ outcome = "raise"

\* Step 6: format_slack_message, send_slack_message
FormatAndSend ==
    /\ pc = "step6"
    /\ message' = Some(format_slack_message(GITHUB_REPO_NAME, delta[1], clock))
    /\ \E outcome \in SlackOutcomes :
        /\ slack' = IF dry_run THEN "dry_run" ELSE outcome
        /\ IF send_slack_message_raises(dry_run, outcome)
           THEN Raise("notify")
           ELSE pc' = "save" /\ UNCHANGED <<ret, failed>>
    /\ UNCHANGED <<file, clock, dry_run, issues, current_snapshot, previous_snapshot,
                   delta, saved, first_run, file_at_start, last_ok_issues>>

\* save_snapshot and the return 0 after it.  The write can fail: open() raises
\* and the file is untouched, or open() has truncated the file and the write
\* raises.
SaveSnapshot ==
    /\ pc = "save"
    /\ saved' = TRUE
    /\ current_snapshot' = Some(Stamped(current_snapshot[1], clock))
    /\ \/ /\ file' = save_snapshot(current_snapshot[1], clock, file)
          /\ clock' = clock + 1
          /\ last_ok_issues' = Some(issues)
          /\ pc' = "done"
          /\ ret' = Some(0)
          /\ UNCHANGED failed
       \/ /\ Raise("save")
          /\ UNCHANGED <<file, clock, last_ok_issues>>
       \/ /\ file' = TruncatedFile
          /\ Raise("save")
          /\ UNCHANGED <<clock, last_ok_issues>>
    /\ UNCHANGED <<dry_run, issues, previous_snapshot, delta, message, slack,
                   first_run, file_at_start>>

Next ==
    \/ Main
    \/ GetSecrets
    \/ FetchIssues
    \/ Categorize
    \/ LoadPrevious
    \/ CalculateDelta
    \/ FormatAndSend
    \/ SaveSnapshot

Spec == Init /\ [][Next]_vars

-----------------------------------------------------------------------------
(* The categorizer on its own: main stands before Step 3 with any issue list  *)
(* the issue source can answer with, each issue with any sublist of           *)
(* LabelUniverse.                                                             *)

InitCategorize ==
    /\ \E o \in NewestFirst(MaxCatIssues) : \E lab \in [DOMAIN o -> LabelLists] :
            issues = IssueList(o, lab, 0)
    /\ pc = "step3"
    /\ file = NoFile
    /\ clock = 0
    /\ dry_run = TRUE
    /\ current_snapshot = None
    /\ previous_snapshot = None
    /\ delta = None
    /\ message = None
    /\ slack = "none"
    /\ ret = None
    /\ failed = "none"
    /\ saved = FALSE
    /\ first_run = FALSE
    /\ file_at_start = NoFile
    /\ last_ok_issues = None

SpecCategorize == InitCategorize /\ [][Categorize]_vars

-----------------------------------------------------------------------------
(* The store's load and the delta engine on their own: main stands before    *)
(* Step 4 with any current snapshot and any file an earlier run has left.    *)
(* The titles have been edited since the file was written (revision 1        *)
(* against 0), the numbers have not.                                         *)

Range(seq) == {seq[i] : i \in DOMAIN seq}

InitDelta ==
    /\ \E o \in Orders(MaxDeltaIssues) : \E lab \in [DOMAIN o -> Range(RunLabelLists)] :
            issues = IssueList(o, lab, 1)
    /\ current_snapshot = Some(categorize_issues(issues))
    /\ pc = "step4"
    /\ \/ /\ file = NoFile
          /\ clock = 0
          /\ last_ok_issues = None
       \/ \E resp \in Responses(MaxDeltaIssues) : LET old == actual_issues(resp) IN
            /\ file = save_snapshot(categorize_issues(old), 0, NoFile)
            /\ clock = 1
            /\ last_ok_issues = Some(old)
       \/ /\ file = TruncatedFile
          /\ clock = 0
          /\ last_ok_issues = None
    /\ file_at_start = file
    /\ dry_run = TRUE
    /\ previous_snapshot = None
    /\ delta = None
    /\ message = None
    /\ slack = "none"
    /\ ret = None
    /\ failed = "none"
    /\ saved = FALSE
    /\ first_run = FALSE

NextDelta ==
    \/ LoadPrevious
    \/ CalculateDelta

SpecDelta == InitDelta /\ [][NextDelta]_vars

-----------------------------------------------------------------------------
(* Properties. *)

AfterCategorize == pc = "step4"
AfterDelta == pc = "step6"
LowerNames(issue) == {lower(Chars(issue.labels[i].name)) : i \in DOMAIN issue.labels}

\* C1: in every run in which a stage fails (secret retrieval, issue fetch, load
\* of the previous snapshot, or the notifier, the chat API answering ok=false
\* included) save_snapshot is not executed and the file is the one the run
\* began with.
C1_NoSaveAfterFailure ==
    (pc = "done" /\ (failed \in {"secrets", "fetch", "load", "notify"} \/ slack = "not_ok"))
        => (~saved /\ file = file_at_start)

\* C2: a run whose issue fetch fails or whose notification is rejected or raises
\* returns non-zero; a run returns 0 only when every stage, notification
\* included, succeeded.
C2_FailureReported ==
    pc = "done" =>
        /\ (failed \in {"fetch", "notify"} \/ slack = "not_ok") => ret /= Some(0)
        /\ ret = Some(0) => (failed = "none" /\ slack \in {"ok", "dry_run"})

\* C3: the four category sequences are pairwise disjoint by issue number, the
\* union of their numbers is the set of input numbers, each count is the length
\* of its sequence and totalCount is the sum of the four counts.
C3_Partition ==
    AfterCategorize =>
        LET s == current_snapshot[1]
        IN  /\ \A a, b \in ListKeys : a /= b => Numbers(s[a]) \cap Numbers(s[b]) = {}
            /\ UNION {Numbers(s[b]) : b \in ListKeys} = Numbers(issues)
            /\ \A b \in ListKeys : Cardinality(Numbers(s[b])) = Len(s[b])
            /\ s.readyForTestingCount = Len(s.readyForTesting)
            /\ s.inProgressCount = Len(s.inProgress)
            /\ s.blockedCount = Len(s.blocked)
            /\ s.backlogCount = Len(s.backlog)
            /\ s.totalCount = s.readyForTestingCount + s.inProgressCount
                              + s.blockedCount + s.backlogCount

\* C3 witness: a categorized list with issues in two different buckets
C3_Witness ==
    /\ AfterCategorize
    /\ current_snapshot[1].blockedCount >= 1
    /\ current_snapshot[1].backlogCount >= 1

\* C4 as claimed: an issue with a label containing "unblocked" is never in the
\* blocked bucket, whatever its other labels.
C4_UnblockedNeverBlocked ==
    AfterCategorize =>
        \A i \in DOMAIN issues :
            (\E l \in LowerNames(issues[i]) : Contains(S_unblocked, l))
                => issues[i].number \notin Numbers(current_snapshot[1].blocked)

\* C4 as amended: an issue with a label containing "unblocked" is not in the
\* blocked bucket when none of its labels contains "blocked" without
\* "unblocked", and is in the blocked bucket when one of them does.
C4_UnblockedLabelDoesNotBlock ==
    AfterCategorize =>
        \A i \in DOMAIN issues :
            (\E l \in LowerNames(issues[i]) : Contains(S_unblocked, l))
                => (issues[i].number \in Numbers(current_snapshot[1].blocked)
                      <=> \E l \in LowerNames(issues[i]) :
                            Contains(S_blocked, l) /\ ~Contains(S_unblocked, l))

\* C4 witness: an issue labelled only "unblocked" outside the blocked bucket and
\* an issue labelled "unblocked" and "Blocked" inside it
C4_Witness ==
    /\ AfterCategorize
    /\ \E i, j \in DOMAIN issues :
        /\ issues[i].labels = LabelList({2})
        /\ issues[i].number \notin Numbers(current_snapshot[1].blocked)
        /\ issues[j].labels = LabelList({1, 2})
        /\ issues[j].number \in Numbers(current_snapshot[1].blocked)

\* the only change since the previous snapshot: issue n went from Blocked to
\* ReadyForTesting
C5_OnlyMove(n) ==
    LET c == current_snapshot[1]
        p == previous_snapshot[1]
    IN  /\ n \in Numbers(p.blocked)
        /\ n \in Numbers(c.readyForTesting)
        /\ Numbers(c.readyForTesting) = Numbers(p.readyForTesting) \cup {n}
        /\ Numbers(c.blocked) = Numbers(p.blocked) \ {n}
        /\ Numbers(c.inProgress) = Numbers(p.inProgress)
        /\ Numbers(c.backlog) = Numbers(p.backlog)

C5_Entry(n) ==
    LET r == current_snapshot[1].readyForTesting
    IN  r[CHOOSE i \in DOMAIN r : r[i].number = n]

\* C5 as claimed: an issue that went from Blocked to ReadyForTesting, nothing
\* else changed: moved = [the issue], new = [], blocked.delta = -1.
C5_MovedNotNew ==
    (AfterDelta /\ previous_snapshot /= None) =>
        \A n \in Numbers(current_snapshot[1].readyForTesting) :
            C5_OnlyMove(n) =>
                /\ delta[1].readyForTesting.moved = <<C5_Entry(n)>>
                /\ delta[1].readyForTesting.new = <<>>
                /\ delta[1].blocked.delta = -1

\* C5 as amended: moved = [the issue], new = [the issue] as well,
\* blocked.delta = -1.
C5_MovedAndNew ==
    (AfterDelta /\ previous_snapshot /= None) =>
        \A n \in Numbers(current_snapshot[1].readyForTesting) :
            C5_OnlyMove(n) =>
                /\ delta[1].readyForTesting.moved = <<C5_Entry(n)>>
                /\ delta[1].readyForTesting.new = <<C5_Entry(n)>>
                /\ delta[1].blocked.delta = -1

\* C5 witness: the delta of such a move, beside an issue that stayed in
\* ReadyForTesting
C5_Witness ==
    /\ AfterDelta
    /\ previous_snapshot /= None
    /\ previous_snapshot[1].readyForTestingCount >= 1
    /\ \E n \in Numbers(current_snapshot[1].readyForTesting) : C5_OnlyMove(n)

\* C6: with no snapshot file load returns None and the delta has, for every
\* category, a net change equal to the current count, the whole current bucket
\* as new for ReadyForTesting, InProgress and Blocked, an empty moved list, and
\* only count and net change for Backlog; the first-run branch is taken for an
\* absent file only, never for a stored snapshot.
C6_FirstRun ==
    AfterDelta =>
        /\ first_run <=> ~file.exists
        /\ previous_snapshot = None <=> ~file.exists
        /\ ~file.exists =>
            LET c == current_snapshot[1]
                d == delta[1]
            IN  /\ d.readyForTesting.delta = c.readyForTestingCount
                /\ d.inProgress.delta = c.inProgressCount
                /\ d.blocked.delta = c.blockedCount
                /\ d.backlog.delta = c.backlogCount
                /\ d.readyForTesting.count = c.readyForTestingCount
                /\ d.inProgress.count = c.inProgressCount
                /\ d.blocked.count = c.blockedCount
                /\ d.backlog.count = c.backlogCount
                /\ d.readyForTesting.new = c.readyForTesting
                /\ d.inProgress.new = c.inProgress
                /\ d.blocked.new = c.blocked
                /\ d.readyForTesting.moved = <<>>
                /\ DOMAIN d.backlog = {"count", "delta"}

\* C6 witness: a first-run delta over a non-empty current snapshot
C6_Witness ==
    /\ AfterDelta
    /\ ~file.exists
    /\ first_run
    /\ current_snapshot[1].totalCount >= 2
    /\ delta[1].backlog.delta + delta[1].blocked.delta
       + delta[1].inProgress.delta + delta[1].readyForTesting.delta >= 2

\* the numbers in the four previous category sequences
C7_PreviousNumbers ==
    UNION {Numbers(previous_snapshot[1][b]) : b \in ListKeys}

\* new is cur without the entries whose number is in known, order kept
C7_IsNewList(new, cur, known) ==
    /\ Range(new) = {e \in Range(cur) : e.number \notin known}
    /\ Cardinality(Range(new)) = Len(new)
    /\ \A i, j \in DOMAIN new :
        i < j => \E k, l \in DOMAIN cur : k < l /\ cur[k] = new[i] /\ cur[l] = new[j]

\* C7: with a previous snapshot, the new lists of InProgress and of Blocked are
\* the current bucket's issues, in current order, whose number is in none of the
\* four previous category sequences.
C7_NewToTracker ==
    (AfterDelta /\ previous_snapshot /= None) =>
        /\ C7_IsNewList(delta[1].inProgress.new, current_snapshot[1].inProgress,
                        C7_PreviousNumbers)
        /\ C7_IsNewList(delta[1].blocked.new, current_snapshot[1].blocked,
                        C7_PreviousNumbers)

\* C7 witness: an issue that came into InProgress from the previous Backlog and
\* is not reported, beside an issue new to the tracker that is
C7_Witness ==
    /\ AfterDelta
    /\ previous_snapshot /= None
    /\ \E e \in Range(current_snapshot[1].inProgress) :
        /\ e.number \in Numbers(previous_snapshot[1].backlog)
        /\ e \notin Range(delta[1].inProgress.new)
    /\ delta[1].blocked.new /= <<>>

\* C8: after save_snapshot(s) a load returns exactly the saved content, the
\* sequences and counts of s with the timestamp and the repo identifier; the
\* next run's load returns the content of the last save and nothing older.
C8_LoadReturnsSaved ==
    /\ (pc = "done" /\ ret = Some(0)) =>
            /\ load_previous_snapshot(file) = [raised |-> FALSE, value |-> current_snapshot]
            /\ current_snapshot[1].timestamp = clock - 1
            /\ current_snapshot[1].repoName = <<GITHUB_REPO_OWNER, "/", GITHUB_REPO_NAME>>
    /\ (pc = "step5" /\ file.exists) =>
            /\ last_ok_issues /= None
            /\ previous_snapshot =
                 Some(Stamped(categorize_issues(last_ok_issues[1]), clock - 1))

\* C8 witness: the load of the run after the second save returns the second
\* saved snapshot
C8_Witness ==
    /\ pc = "step5"
    /\ clock = 2
    /\ previous_snapshot /= None
    /\ previous_snapshot[1].timestamp = 1
    /\ previous_snapshot[1].totalCount >= 1

\* the bucket the priority order Blocked > ReadyForTesting > InProgress > Backlog
\* gives an issue
C9_Expected(issue) ==
    LET names == LowerNames(issue)
    IN  IF \E l \in names : Contains(S_blocked, l) /\ ~Contains(S_unblocked, l)
        THEN "blocked"
        ELSE IF \E l \in names : Contains(S_ready, l) /\ Contains(S_test, l)
        THEN "readyForTesting"
        ELSE IF \E l \in names :
                    Contains(S_in_progress, l) \/ Contains(S_in_progress_sp, l)
        THEN "inProgress"
        ELSE "backlog"

\* C9: every issue is in the first bucket, in the order Blocked >
\* ReadyForTesting > InProgress > Backlog, whose predicate one of its labels
\* satisfies; an issue with no label or no matching label is in Backlog.
C9_Priority ==
    AfterCategorize =>
        \A i \in DOMAIN issues :
            /\ issues[i].number \in Numbers(current_snapshot[1][C9_Expected(issues[i])])
            /\ issues[i].labels = <<>>
                => issues[i].number \in Numbers(current_snapshot[1].backlog)
            /\ issues[i].labels = LabelList({4, 5})
                => issues[i].number \in Numbers(current_snapshot[1].inProgress)

\* C9 witness: an issue with a blocked and a ready-for-testing label in Blocked
C9_Witness ==
    /\ AfterCategorize
    /\ \E i \in DOMAIN issues :
        /\ issues[i].labels = LabelList({1, 3})
        /\ issues[i].number \in Numbers(current_snapshot[1].blocked)

\* the same set of open issues with the same labels
C10_SameFetch(a, b) ==
    {<<a[i].number, a[i].labels>> : i \in DOMAIN a}
        = {<<b[i].number, b[i].labels>> : i \in DOMAIN b}

C10_ZeroDelta(d) ==
    /\ d.readyForTesting.delta = 0
    /\ d.inProgress.delta = 0
    /\ d.blocked.delta = 0
    /\ d.backlog.delta = 0
    /\ d.readyForTesting.new = <<>>
    /\ d.inProgress.new = <<>>
    /\ d.blocked.new = <<>>
    /\ d.readyForTesting.moved = <<>>

\* C10: the delta of a run is a function of its fetch and of the fetch of the
\* last run that returned 0 (the first-run delta when there is none); when the
\* two fetches hold the same issues with the same labels all four net changes
\* are 0 and the new and moved lists are empty.
C10_DeltaAcrossRuns ==
    AfterDelta =>
        /\ delta[1] =
             IF last_ok_issues = None
             THEN FirstRunDelta(categorize_issues(issues))
             ELSE DiffDelta(categorize_issues(issues),
                            categorize_issues(last_ok_issues[1]))
        /\ (last_ok_issues /= None /\ C10_SameFetch(issues, last_ok_issues[1]))
                => C10_ZeroDelta(delta[1])

\* C10 witness: after two runs that returned 0, a run that fetches what the
\* last of them fetched
C10_Witness ==
    /\ pc = "step6"
    /\ clock = 2
    /\ Len(issues) >= 2
    /\ last_ok_issues = Some(issues)
    /\ C10_ZeroDelta(delta[1])

====
